---- MODULE Spec2Model ----
(***************************************************************************)
(* A model of flexible-reverse-proxy's createProxyServer                   *)
(* (src/lib/proxy-server.js): the routing state (currentRoutes,            *)
(* routeMatchers, defaultTarget), the start / stop / reload operations,    *)
(* the file watcher with its settle-delay timer, and the HTTP request      *)
(* handler with its one-time retry around proxy.web.                       *)
(*                                                                         *)
(* The handler only reads the routing state and keeps everything else in   *)
(* its closure, so requests never interact: req, res and log follow one    *)
(* request at a time, from its arrival on, and turn to a new request when  *)
(* one arrives.                                                            *)
(*                                                                         *)
(* SpecRouting is the server with its life cycle, the routes file and the  *)
(* reloads, and the handler up to its first proxy.web call; SpecForward is *)
(* a server without routes file, with the upstream's answers and failures. *)
(* SpecReload is SpecRouting with the few requests that tell one table     *)
(* from another; SpecInflight has reloads while a request is forwarded;    *)
(* SpecOutgoing has the headers and the path handed to http-proxy; SpecCli *)
(* is the route parsing of bin/cli.js.                                     *)
(***************************************************************************)
EXTENDS Naturals, Sequences, FiniteSets

\* ------------------------------------------------------------------ bounds

\* Pending settle-delay timers (setTimeout(..., 100)) at one moment.
MaxTimers == 1

\* The most arguments of a command line.
MaxArgs == 3

\* ------------------------------------------------------------- the domain

Null == "null"

\* Targets (absolute URLs).
TA == "http://a"
TB == "http://b"
TW == "http://w"
TF == "http://f"

\* Targets whose URL has a path: new URL(target).pathname as its segments,
\* <<>> for "/".
TP == "http://p/api"
TQ == "http://q/ap"
BasePath(t) ==
    IF t = TP THEN <<"api">>
    ELSE IF t = TQ THEN <<"ap">>
    ELSE <<>>

\* new URL(target).host, and `${t.protocol}//${t.host}`.
TargetHost(t) ==
    CASE t = TA -> "a" [] t = TB -> "b" [] t = TW -> "w" [] t = TF -> "f"
      [] t = TP -> "p" [] t = TQ -> "q"
TargetOrigin(t) ==
    CASE t = TA -> "http://a" [] t = TB -> "http://b" [] t = TW -> "http://w"
      [] t = TF -> "http://f" [] t = TP -> "http://p" [] t = TQ -> "http://q"

\* A target that is not an absolute URL: "http", what bin/cli.js makes of
\* --route /api:http://localhost:3000.  new URL(target) throws on it.
TInvalid == "http"
InvalidTargets == {TInvalid}
UrlThrows(t) == t \in InvalidTargets

\* A route pattern is the sequence of its "/"-separated tokens: "/api/:id" is
\* <<"api", ":id">>.  Star is the mapping key "*".
Params == {":id"}
Star == <<"*">>
\* Patterns path-to-regexp refuses to compile (an unbalanced group, "/(" ).
Malformed == {<<"(">>}

Route(p, t) == [pattern |-> p, target |-> t]

\* A routes object is the sequence of its entries in key (insertion) order.
NoRoutes == <<>>
RoutesApi == <<Route(<<"api">>, TB)>>
RoutesOther == <<Route(<<"other">>, TA), Route(Star, TW)>>
RoutesParamFirst ==
    <<Route(<<"api", ":id">>, TA), Route(<<"api", "users">>, TB), Route(Star, TW)>>
RoutesLiteralFirst ==
    <<Route(<<"api", "users">>, TB), Route(<<"api", ":id">>, TA)>>
RoutesMalformed == <<Route(Star, TB), Route(<<"(">>, TA)>>
RoutesInvalidTarget == <<Route(<<"api", "users">>, TInvalid)>>

\* The routes option of the configuration.
ConfigRoutes == {NoRoutes, RoutesApi, RoutesOther}

\* What the routes file can be: a JSON object, text that is not JSON, or missing.
JsonObject(r) == [kind |-> "object", routes |-> r]
InvalidJson == [kind |-> "invalid", routes |-> NoRoutes]
MissingFile == [kind |-> "missing", routes |-> NoRoutes]
\* The JSON text null: it parses, to a value that has no keys to list.
JsonNull == [kind |-> "null", routes |-> NoRoutes]
FileContents ==
    { JsonObject(RoutesParamFirst), JsonObject(RoutesLiteralFirst),
      JsonObject(RoutesMalformed), JsonObject(NoRoutes), JsonNull, InvalidJson,
      MissingFile }

\* A request URL "/seg1/seg2[/][?query]": its path segments, whether the path
\* ends with "/", and its query ("none": no "?"; "empty": a bare "?").
Url(s, sl, q) == [segs |-> s, slash |-> sl, query |-> q]
Urls ==
    { Url(<<"api">>, FALSE, "none"),
      Url(<<"api">>, TRUE, "none"),
      Url(<<"api">>, FALSE, "empty"),
      Url(<<"api", "users">>, FALSE, "none"),
      Url(<<"api", "users">>, FALSE, "x=1"),
      Url(<<"api", "42">>, FALSE, "none"),
      Url(<<"api", "42">>, FALSE, "x=1"),
      Url(<<"other">>, FALSE, "none") }

\* A request header is its lower-cased name and its value; the headers of a
\* request are a set of them, one for a name.
Header(name, value) == <<name, value>>
NoHeaders == {}
HeaderSets ==
    { NoHeaders,
      { Header("host", "client"), Header("authorization", "t") },
      { Header("host", "client"), Header("connection", "keep-alive"),
        Header("content-length", "4"), Header("authorization", "t") },
      { Header("host", "client"), Header("connection", ""), Header("cookie", "c") },
      { Header("host", "client"), Header("origin", "http://site"),
        Header("referer", "http://site/page"), Header("accept-encoding", "gzip") } }

\* Requests of a browser and of another client: with an Origin header, with
\* the Access-Control-Request-Headers of a preflight, with neither.
CorsHeaderSets ==
    { NoHeaders,
      { Header("origin", "http://site") },
      { Header("origin", "http://site"),
        Header("access-control-request-headers", "x-custom") } }

\* The headers an upstream answers with: none of CORS, or its own.
ProxyResHeaders == { NoHeaders, { Header("access-control-allow-origin", "*") } }

Methods == {"GET", "HEAD", "OPTIONS", "POST", "PUT", "PATCH", "DELETE"}

\* config.logLevel
LogLevels == {"basic", "detailed", "full"}

\* Failure codes the forwarding callback can be handed.
ErrorCodes == {"ECONNRESET", "ECONNREFUSED"}

\* The statuses an upstream answers with.
UpstreamStatuses == {200}

\* The installed major version of path-to-regexp: the repository pins none,
\* and match() exists with these options in both.
Majors == {6, 8}

VARIABLES
    forwardAll,     \* config.forwardAll (Null when not configured)
    routesFile,     \* config.routesFile is set
    watchRoutes,    \* config.watchRoutes
    ptrMajor,       \* the path-to-regexp build in node_modules
    currentRoutes,  \* let currentRoutes
    routeMatchers,  \* let routeMatchers
    defaultTarget,  \* let defaultTarget
    started,        \* start() was called (the callers call it once)
    server,         \* let server: Null, or "created"
    listenPending,  \* the callback given to server.listen has yet to run
    listening,      \* the http server created last accepts connections
    watcher,        \* let watcher: TRUE when an fs.watch watcher is registered
    timers,         \* settle-delay timers set by the watcher and not yet run
    file,           \* the content of the routes file
    req,            \* the request being handled (its closure variables)
    res,            \* its response
    log,            \* the logger calls made for it
    report,         \* the reload that ran last: its logger calls, and its throw
    args,           \* bin/cli.js: process.argv.slice(2)
    argi,           \* bin/cli.js: let i, as a position from 1
    routes,         \* bin/cli.js: const routes
    exited,         \* bin/cli.js: process.exit(1) was called
    preserveHeaders, \* config.preserveHeaders
    changeOrigin,   \* config.changeOrigin
    logLevel        \* config.logLevel

vars ==
    <<forwardAll, routesFile, watchRoutes, ptrMajor, currentRoutes, routeMatchers,
      defaultTarget, started, server, listenPending, listening, watcher, timers, file,
      req, res, log, report, args, argi, routes, exited, preserveHeaders,
      changeOrigin, logLevel>>

\* The command line's variables.
cli == <<args, argi, routes, exited>>
\* What a server is created with, and the command line it may be created by.
config ==
    <<forwardAll, routesFile, watchRoutes, ptrMajor, preserveHeaders, changeOrigin,
      logLevel, cli>>
routing == <<currentRoutes, routeMatchers, defaultTarget>>
exchange == <<req, res, log>>
lifecycle == <<started, server, listenPending, listening, watcher>>

\* ---------------------------------------------------------- routes objects

RECURSIVE IndexOf(_, _, _)
\* The position of key p in routes object r at or after i, 0 when absent.
IndexOf(r, p, i) ==
    IF i > Len(r) THEN 0
    ELSE IF r[i].pattern = p THEN i
    ELSE IndexOf(r, p, i + 1)

HasKey(r, p) == IndexOf(r, p, 1) # 0

\* currentRoutes["*"] || null
WildcardOf(r) == IF HasKey(r, Star) THEN r[IndexOf(r, Star, 1)].target ELSE Null

RECURSIVE ObjectAssign(_, _)
\* Object.assign(base, over): a key of base keeps its place and takes over's
\* value, a new key is appended.
ObjectAssign(base, over) ==
    IF over = <<>> THEN base
    ELSE LET e == Head(over)
             i == IndexOf(base, e.pattern, 1)
             b == IF i = 0 THEN Append(base, e)
                  ELSE [base EXCEPT ![i] = e]
         IN  ObjectAssign(b, Tail(over))

IsCompiled(e) == e.pattern # Star

\* match(pattern, ...) throws on a pattern it cannot parse.
CompileThrows(routesObj) ==
    \E i \in 1..Len(routesObj) :
        IsCompiled(routesObj[i]) /\ routesObj[i].pattern \in Malformed

\* compileRouteMatchers without its filter: "*" is compiled like any key.
CompileEveryKey(routesObj) == routesObj

\* The entries of routesObj except "*", in key order; an entry's matcher is
\* its compiled pattern, applied by Accepts.
compileRouteMatchers(routesObj) == SelectSeq(routesObj, IsCompiled)

\* loadRoutesFromFile: the parsed object, or {} when reading or parsing throws.
loadRoutesFromFile(f) == IF f.kind = "object" THEN f.routes ELSE NoRoutes

\* The logger call loadRoutesFromFile makes: info("Routes loaded from ...")
\* after the parse, error("Error loading routes file ...") in its catch.
LoadCall(f) == IF f.kind \in {"object", "null"} THEN "info" ELSE "error"

\* Object.keys(newRoutes) throws a TypeError on null.
KeysThrow(f) == f.kind = "null"

\* ------------------------------------------------------------ the matcher

\* A literal token takes the equal segment, a parameter any (non-empty) one.
TokenAccepts(tok, seg) == tok \in Params \/ tok = seg

SegsAccept(toks, segs) ==
    /\ Len(toks) = Len(segs)
    /\ \A i \in 1..Len(toks) : TokenAccepts(toks[i], segs[i])

\* path-to-regexp 6, match(pattern) with end, not strict, delimiters "/#?":
\* ^tokens[/#?]?$ with a parameter as [^/#?]+ .  The one optional trailing
\* delimiter takes a final "/" or a bare "?"; a query with text never matches.
AcceptsV6(pattern, url) ==
    /\ SegsAccept(pattern, url.segs)
    /\ \/ url.query = "none"
       \/ url.query = "empty" /\ ~url.slash

\* path-to-regexp 8, match(pattern) with end, trailing, delimiter "/":
\* ^tokens(?:/$)?$ with a parameter as [^/]+ .  "?" is an ordinary character:
\* the query is part of the last "/"-separated piece of the URL, which only a
\* parameter takes.
AcceptsV8(pattern, url) ==
    LET n == Len(url.segs) IN
    IF url.query = "none" THEN SegsAccept(pattern, url.segs)
    ELSE IF url.slash
    THEN /\ Len(pattern) = n + 1
         /\ SegsAccept(SubSeq(pattern, 1, n), url.segs)
         /\ pattern[n + 1] \in Params
    ELSE /\ Len(pattern) = n
         /\ n >= 1
         /\ SegsAccept(SubSeq(pattern, 1, n - 1), SubSeq(url.segs, 1, n - 1))
         /\ pattern[n] \in Params

\* matcher(req.url) is truthy.
Accepts(pattern, url) ==
    IF ptrMajor = 6 THEN AcceptsV6(pattern, url) ELSE AcceptsV8(pattern, url)

RECURSIVE LastMatch(_, _, _)
\* The loop without its break: the last accepting entry wins.
LastMatch(rm, url, i) ==
    IF i > Len(rm) THEN Null
    ELSE LET later == LastMatch(rm, url, i + 1) IN
         IF later # Null THEN later
         ELSE IF Accepts(rm[i].pattern, url) THEN rm[i].target
         ELSE Null

RECURSIVE FirstMatch(_, _, _)
\* for (const {matcher, target: t} of routeMatchers) if (matcher(req.url)) ... break
FirstMatch(rm, url, i) ==
    IF i > Len(rm) THEN Null
    ELSE IF Accepts(rm[i].pattern, url) THEN rm[i].target
    ELSE FirstMatch(rm, url, i + 1)

\* The target selection with forwardAll as a fallback after the route table.
SelectTargetTableFirst(url) ==
    LET t == FirstMatch(routeMatchers, url, 1) IN
    IF t # Null THEN t
    ELSE IF defaultTarget # Null THEN defaultTarget
    ELSE forwardAll

\* The handler's target selection.
SelectTarget(url) ==
    IF forwardAll # Null THEN forwardAll
    ELSE LET t == FirstMatch(routeMatchers, url, 1) IN
         IF t = Null /\ defaultTarget # Null THEN defaultTarget ELSE t

\* -------------------------------------------------------------- the state

NoUrl == Url(<<>>, TRUE, "none")

\* The value of a Referer header: a text, and the URL appended to it (NoUrl
\* when nothing is appended).
Ref(text, u) == [text |-> text, url |-> u]

\* The headers of the upstream request (proxyReq) that this repository and
\* the changeOrigin option write, Null for a header that is not sent.
NoOutbound ==
    [host |-> Null, origin |-> Null, referer |-> Ref(Null, NoUrl),
     connection |-> Null, acceptEncoding |-> Null]
NoReq ==
    [pc |-> "idle", method |-> "GET", url |-> NoUrl, target |-> Null,
     attempts |-> 0, retried |-> FALSE, fails |-> <<>>, sentTo |-> <<>>,
     inbound |-> NoHeaders, headers |-> NoHeaders, prependPath |-> TRUE,
     path |-> <<>>, outbound |-> NoOutbound, deferred |-> FALSE,
     ended |-> FALSE]
NoRes ==
    [headersSent |-> FALSE, status |-> 0, contentType |-> "", body |-> <<>>,
     finished |-> FALSE, writable |-> TRUE, headers |-> NoHeaders,
     proxyRes |-> NoHeaders]

\* A logger call: logCorsPreflight, logRouteNotFound, logRequest, logResponse
\* (from the wrapped res.writeHead), logError.
Ev(type, path, status) == [ev |-> type, path |-> path, status |-> status]

\* What a reload leaves behind: who ran it ("watcher", "reload"), the levels
\* of its logger calls in order, and whether an exception left the operation.
Report(by, calls, threw) == [by |-> by, calls |-> calls, threw |-> threw]
NoReport == Report("none", <<>>, FALSE)

\* A server made by a program (src/index.js): no command line.
NoCommandLine ==
    /\ args = <<>>
    /\ argi = 1
    /\ routes = NoRoutes
    /\ exited = FALSE

\* The variables of createProxyServer's closure as it returns.
Fresh ==
    /\ routeMatchers = <<>>
    /\ defaultTarget = WildcardOf(currentRoutes)
    /\ started = FALSE
    /\ server = Null
    /\ listenPending = FALSE
    /\ listening = FALSE
    /\ watcher = FALSE
    /\ timers = 0
    /\ req = NoReq
    /\ res = NoRes
    /\ log = <<>>
    /\ report = NoReport

\* The state createProxyServer(config) returns with; preserveHeaders,
\* changeOrigin and logLevel have their defaults.
Created ==
    /\ forwardAll \in {Null, TF}
    /\ routesFile \in BOOLEAN
    /\ watchRoutes \in (IF routesFile THEN BOOLEAN ELSE {FALSE})
    /\ ptrMajor \in Majors
    /\ preserveHeaders = TRUE
    /\ changeOrigin = TRUE
    /\ logLevel = "basic"
    /\ currentRoutes \in ConfigRoutes
    /\ file \in (IF routesFile THEN FileContents ELSE {MissingFile})
    /\ Fresh

Init == NoCommandLine /\ Created

\* ------------------------------------------------- start, stop, the watcher

\* start(): merge the file over the configured routes, compile, create the
\* server and listen.  A pattern that does not compile throws out of start()
\* after currentRoutes and defaultTarget were assigned.
Start ==
    /\ ~started
    /\ started' = TRUE
    /\ LET merged == IF routesFile
                     THEN ObjectAssign(currentRoutes, loadRoutesFromFile(file))
                     ELSE currentRoutes
       IN  /\ currentRoutes' = merged
           /\ defaultTarget' = WildcardOf(merged)
           /\ IF CompileThrows(merged)
              THEN UNCHANGED <<routeMatchers, server, listenPending>>
              ELSE /\ routeMatchers' = compileRouteMatchers(merged)
                   /\ server' = "created"
                   /\ listenPending' = TRUE
    /\ UNCHANGED <<config, report, listening, watcher, timers, file, exchange>>

\* setupFileWatcher(): the watcher is registered when a routes file is
\* configured, watched and exists.
setupFileWatcher ==
    IF routesFile /\ watchRoutes /\ file.kind # "missing" THEN TRUE ELSE watcher

\* The callback given to server.listen.
ListenCallback ==
    /\ listenPending
    /\ listenPending' = FALSE
    /\ listening' = TRUE
    /\ watcher' = setupFileWatcher
    /\ UNCHANGED <<config, report, routing, started, server, timers, file, exchange>>

\* stop()
Stop ==
    /\ server # Null
    /\ watcher' = FALSE
    /\ server' = Null
    /\ listening' = FALSE
    /\ UNCHANGED <<config, report, routing, started, listenPending, timers, file, exchange>>

\* The routes file is rewritten; a registered watcher gets a "change" event
\* and sets its settle-delay timer.
WriteFile(f) ==
    /\ routesFile
    /\ f # file
    /\ timers < MaxTimers \/ ~watcher
    /\ file' = f
    /\ timers' = IF watcher /\ f.kind # "missing" THEN timers + 1 ELSE timers
    /\ UNCHANGED <<config, report, routing, lifecycle, exchange>>

\* The sequence without its test of Object.keys(newRoutes).length.
SwapRoutesUntested ==
    LET newRoutes == loadRoutesFromFile(file) IN
    /\ currentRoutes' = newRoutes
    /\ defaultTarget' = WildcardOf(newRoutes)
    /\ routeMatchers' = IF CompileThrows(newRoutes) THEN routeMatchers
                        ELSE compileRouteMatchers(newRoutes)

\* The sequence with the file merged over the installed mapping, as start()
\* does.
SwapRoutesMerges ==
    LET newRoutes == loadRoutesFromFile(file)
        merged == ObjectAssign(currentRoutes, newRoutes) IN
    IF Len(newRoutes) > 0
    THEN /\ currentRoutes' = merged
         /\ defaultTarget' = WildcardOf(merged)
         /\ routeMatchers' = IF CompileThrows(merged) THEN routeMatchers
                             ELSE compileRouteMatchers(merged)
    ELSE UNCHANGED routing

\* The read-validate-swap sequence shared by the watcher's timer callback and
\* reload(): three assignments, the last of which throws on a pattern that
\* does not compile.
SwapRoutes ==
    LET newRoutes == loadRoutesFromFile(file) IN
    IF Len(newRoutes) > 0
    THEN /\ currentRoutes' = newRoutes
         /\ defaultTarget' = WildcardOf(newRoutes)
         /\ routeMatchers' = IF CompileThrows(newRoutes) THEN routeMatchers
                             ELSE compileRouteMatchers(newRoutes)
    ELSE UNCHANGED routing

\* An exception is thrown inside the read-validate-swap sequence: by
\* Object.keys, or by compileRouteMatchers after the first two assignments.
SwapThrows ==
    \/ KeysThrow(file)
    \/ CompileThrows(loadRoutesFromFile(file))

Installs == ~SwapThrows /\ Len(loadRoutesFromFile(file)) > 0

\* The timer callback that reads and reports and assigns nothing.
TimerFireKeepsTable ==
    /\ timers > 0
    /\ timers' = timers - 1
    /\ UNCHANGED routing
    /\ report' = Report("watcher",
                        IF SwapThrows THEN <<LoadCall(file), "error">>
                        ELSE IF Installs THEN <<LoadCall(file), "success", "info">>
                        ELSE <<LoadCall(file), "warning">>,
                        FALSE)
    /\ UNCHANGED <<config, lifecycle, file, exchange>>

\* The setTimeout callback of the watcher, 100 ms after a change event: the
\* sequence in a try whose catch calls logger.error; an empty candidate is
\* reported with logger.warning.
TimerFire ==
    /\ timers > 0
    /\ timers' = timers - 1
    /\ SwapRoutes
    /\ report' = Report("watcher",
                        IF SwapThrows THEN <<LoadCall(file), "error">>
                        ELSE IF Installs THEN <<LoadCall(file), "success", "info">>
                        ELSE <<LoadCall(file), "warning">>,
                        FALSE)
    /\ UNCHANGED <<config, lifecycle, file, exchange>>

\* reload(): the sequence with no try around it and no else branch.
Reload ==
    /\ IF routesFile
       THEN /\ SwapRoutes
            /\ report' = Report("reload",
                                IF Installs THEN <<LoadCall(file), "success", "info">>
                                ELSE <<LoadCall(file)>>,
                                SwapThrows)
       ELSE /\ UNCHANGED routing
            /\ report' = Report("reload", <<>>, FALSE)
    /\ UNCHANGED <<config, lifecycle, timers, file, exchange>>

\* ------------------------------------------------------ the request handler

\* canRetry without its list of methods.
CanRetryAnyMethod(method) == TRUE

\* const canRetry = ["GET", "HEAD", "OPTIONS"].includes(req.method || "GET")
canRetry(method) == method \in {"GET", "HEAD", "OPTIONS"}

\* delete req.headers[name]
Delete(h, name) == { x \in h : x[1] # name }

\* req.headers[name] is truthy: the header is there with a value that is not "".
IsSet(h, name) == \E x \in h : x[1] = name /\ x[2] # ""

\* req.headers[name]: Null (undefined) for a header the request has not.
Value(h, name) ==
    IF \E x \in h : x[1] = name THEN (CHOOSE x \in h : x[1] = name)[2] ELSE Null

\* res.setHeader(name, value)
SetHeader(h, name, value) == Delete(h, name) \cup {Header(name, value)}

\* The headers the handler sets on the response before anything else, of
\* the request's headers: the CORS headers, if (origin).
CorsHeaders(h) ==
    IF IsSet(h, "origin")
    THEN { Header("access-control-allow-origin", Value(h, "origin")),
           Header("access-control-allow-methods",
                  "GET, POST, PUT, PATCH, DELETE, OPTIONS"),
           Header("access-control-allow-headers",
                  IF IsSet(h, "access-control-request-headers")
                  THEN Value(h, "access-control-request-headers")
                  ELSE "Content-Type, Authorization, Channel, hiddify-api-key, X-Requested-With"),
           Header("access-control-allow-credentials", "true"),
           Header("access-control-max-age", "86400"),
           Header("vary", "Origin, Access-Control-Request-Headers") }
    ELSE NoHeaders

\* The response as the branches of the handler find it.
Res(h) == [NoRes EXCEPT !.headers = CorsHeaders(h)]

\* An OPTIONS request: logCorsPreflight, writeHead(204), end(), return.
Preflight(m, u, h) ==
    /\ req' = [NoReq EXCEPT !.pc = "done", !.method = m, !.url = u, !.inbound = h]
    /\ res' = [Res(h) EXCEPT !.headersSent = TRUE, !.status = 204, !.finished = TRUE]
    /\ log' = <<Ev("preflight", NoUrl, 0)>>

\* The 404 branch without its return: the handler goes on to doProxy().
NotFoundFallsThrough(m, u, h) ==
    /\ req' = [NoReq EXCEPT !.pc = "forwarding", !.method = m, !.url = u,
                            !.attempts = 1, !.inbound = h]
    /\ res' = [Res(h) EXCEPT !.headersSent = TRUE, !.status = 404,
                            !.contentType = "text/plain",
                            !.body = <<"Not found">>, !.finished = TRUE]
    /\ log' = <<Ev("notfound", u, 0), Ev("request", u, 0)>>

\* No target: logRouteNotFound, writeHead(404, text/plain), end("Not found").
NotFound(m, u, h) ==
    /\ req' = [NoReq EXCEPT !.pc = "done", !.method = m, !.url = u, !.inbound = h]
    /\ res' = [Res(h) EXCEPT !.headersSent = TRUE, !.status = 404,
                            !.contentType = "text/plain",
                            !.body = <<"Not found">>, !.finished = TRUE]
    /\ log' = <<Ev("notfound", u, 0)>>

\* The three deletes of the preserveHeaders branch: host and content-length,
\* and connection when it has no value.
StripHeaders(h) ==
    LET h1 == Delete(h, "host")
        h2 == IF ~IsSet(h1, "connection") THEN Delete(h1, "connection") ELSE h1
    IN  Delete(h2, "content-length")

\* if (preserveHeaders) { the deletes }: with preserveHeaders false
\* req.headers is left as it came.
HandlerHeaders(h) == IF preserveHeaders THEN StripHeaders(h) ELSE h

\* The upstream request keeps every header of the client.
OutboundAsSent(t, u, h) ==
    [host |-> Value(h, "host"), origin |-> Value(h, "origin"),
     referer |-> Ref(Value(h, "referer"), NoUrl),
     connection |-> Value(h, "connection"),
     acceptEncoding |-> Value(h, "accept-encoding")]

\* The headers of the upstream request when it is sent, of req.headers as
\* the handler left them (h).  http-proxy copies req.headers and, with
\* changeOrigin, sets host to the target's; Node gives a request that has no
\* Host header the host it connects to.  Then the proxyReq listener:
\* Connection: close unless the client asked for keep-alive; with
\* changeOrigin, Host, Origin and Referer of the target; Accept-Encoding:
\* identity when the client named none.  What http-proxy sends for a
\* target that is not a URL is left out.
Outbound(t, u, h) ==
    IF UrlThrows(t) THEN NoOutbound ELSE
    [host |-> IF changeOrigin \/ Value(h, "host") = Null
              THEN TargetHost(t) ELSE Value(h, "host"),
     origin |-> IF changeOrigin THEN TargetOrigin(t) ELSE Value(h, "origin"),
     referer |-> IF changeOrigin THEN Ref(TargetOrigin(t), u)
                 ELSE Ref(Value(h, "referer"), NoUrl),
     connection |-> IF Value(h, "connection") = "keep-alive"
                    THEN "keep-alive" ELSE "close",
     acceptEncoding |-> IF IsSet(h, "accept-encoding")
                        THEN Value(h, "accept-encoding") ELSE "identity"]

\* One text is the beginning of another; of the texts of the model, "ap" of
\* "api".
TextStartsWith(text, start) == start = text \/ <<start, text>> \in {<<"ap", "api">>}

\* req.url.startsWith(basePath), for a basePath other than "/": a comparison
\* of texts, so the last segment of basePath need only begin a segment.
StartsWith(url, base) ==
    LET k == Len(base) IN
    /\ k <= Len(url.segs)
    /\ \A j \in 1..(k - 1) : url.segs[j] = base[j]
    /\ TextStartsWith(url.segs[k], base[k])

\* let prependPath always true.
PrependAlways(t, u) == TRUE

\* let prependPath = true, false when the target's path is not "/" and
\* begins req.url; the catch around new URL(target) leaves it true.
prependPath(t, u) ==
    ~(~UrlThrows(t) /\ BasePath(t) # <<>> /\ StartsWith(u, BasePath(t)))

\* The path http-proxy requests of the upstream: the target's path joined
\* with req.url when prependPath, req.url otherwise.
OutgoingPath(t, u) == IF prependPath(t, u) THEN BasePath(t) \o u.segs ELSE u.segs

\* if (logLevel === "full" && ["POST", "PUT", "PATCH"].includes(req.method)):
\* logRequest is left to the listener of the request's 'end' event.
DefersLog(m) == logLevel = "full" /\ m \in {"POST", "PUT", "PATCH"}

\* A target: the preserveHeaders branch, logRequest or the registration of
\* the listeners that will call it, prependPath, then doProxy() makes the
\* first proxy.web call, with the target of the handler's closure.
Forward(m, u, t, h) ==
    /\ req' = [NoReq EXCEPT !.pc = "forwarding", !.method = m, !.url = u,
                            !.target = t, !.attempts = 1, !.sentTo = <<t>>,
                            !.inbound = h, !.headers = HandlerHeaders(h),
                            !.prependPath = prependPath(t, u),
                            !.path = OutgoingPath(t, u),
                            !.outbound = Outbound(t, u, HandlerHeaders(h)),
                            !.deferred = DefersLog(m)]
    /\ res' = Res(h)
    /\ log' = IF DefersLog(m) THEN <<>> ELSE <<Ev("request", u, 0)>>

\* The handler with the OPTIONS test after the 404 branch.
RequestRoutesFirst(m, u, h) ==
    /\ listening
    /\ LET target == SelectTarget(u) IN
       IF target = Null THEN NotFound(m, u, h)
       ELSE IF m = "OPTIONS" THEN Preflight(m, u, h)
       ELSE Forward(m, u, target, h)
    /\ UNCHANGED <<config, report, routing, lifecycle, timers, file>>

\* The handler with a target selection that looks at the request's Host
\* header: a request that has one goes to the wildcard when there is one.
RequestByHost(m, u, h) ==
    /\ listening
    /\ IF m = "OPTIONS" THEN Preflight(m, u, h)
       ELSE LET target == IF IsSet(h, "host") /\ defaultTarget # Null
                          THEN defaultTarget ELSE SelectTarget(u) IN
            IF target = Null THEN NotFound(m, u, h) ELSE Forward(m, u, target, h)
    /\ UNCHANGED <<config, report, routing, lifecycle, timers, file>>

\* http.createServer((req, res) => ...), up to the first doProxy().
Request(m, u, h) ==
    /\ listening
    /\ IF m = "OPTIONS" THEN Preflight(m, u, h)
       ELSE LET target == SelectTarget(u) IN
            IF target = Null THEN NotFound(m, u, h) ELSE Forward(m, u, target, h)
    /\ UNCHANGED <<config, report, routing, lifecycle, timers, file>>

\* The 'end' event of a request given to http-proxy: its body was received
\* whole.  The listener registered at the full log level calls logRequest.
RequestEnd ==
    /\ req.attempts >= 1
    /\ ~req.ended
    /\ req' = [req EXCEPT !.ended = TRUE]
    /\ log' = IF req.deferred THEN Append(log, Ev("request", req.url, 0)) ELSE log
    /\ UNCHANGED <<config, report, routing, lifecycle, timers, file, res>>

\* http-proxy copies the upstream's headers to the response with
\* res.setHeader, one by one, over what was set before under the same name.
WriteHeaders(h, rh) == { x \in h : \A y \in rh : y[1] # x[1] } \cup rh

\* The upstream answers, with status st and headers rh, and the first of its
\* body is piped to the client: with it the response head goes out through
\* the wrapped res.writeHead (logResponse), unless a head was already sent.
\* An upstream's whole body is <<"part", "rest">>.
UpstreamHeaders(st, rh) ==
    /\ req.pc = "forwarding"
    /\ req' = [req EXCEPT !.pc = "streaming"]
    /\ IF res.headersSent
       THEN /\ res' = [res EXCEPT !.body = Append(res.body, "part")]
            /\ UNCHANGED log
       ELSE /\ res' = [res EXCEPT !.headersSent = TRUE, !.status = st,
                                   !.headers = WriteHeaders(res.headers, rh),
                                   !.proxyRes = rh,
                                   !.body = Append(res.body, "part")]
            /\ log' = Append(log, Ev("response", req.url, st))
    /\ UNCHANGED <<config, report, routing, lifecycle, timers, file>>

\* The upstream's body is piped to its end.
UpstreamEnd ==
    /\ req.pc = "streaming"
    /\ req' = [req EXCEPT !.pc = "done"]
    /\ res' = [res EXCEPT !.body = Append(res.body, "rest"), !.finished = TRUE]
    /\ UNCHANGED <<config, report, routing, lifecycle, timers, file, log>>

\* What is kept of a failed attempt: the error's code, and whether a
\* response head had been sent to the client when the callback ran.
Failure(code) == [code |-> code, sent |-> res.headersSent]

\* if (err && err.code === "ECONNRESET" && canRetry && !req[RETRIED])
ShouldRetry(code) ==
    code = "ECONNRESET" /\ canRetry(req.method) /\ ~req.retried

\* The callback with the headersSent test inverted.
GiveUpHeadTestInverted(code) ==
    LET r2 == [res EXCEPT !.body = Append(res.body, "Proxy error"),
                          !.finished = TRUE]
    IN  /\ req' = [req EXCEPT !.pc = "done",
                                !.fails = Append(req.fails, Failure(code))]
        /\ res' = r2
        /\ log' = Append(log, Ev("error", req.url, 0))

\* The callback without its res.end("Proxy error").
GiveUpNoEnd(code) ==
    LET head == ~res.headersSent
        r1 == IF head
              THEN [res EXCEPT !.headersSent = TRUE, !.status = 502,
                               !.contentType = "text/plain"]
              ELSE res
        l1 == Append(log, Ev("error", req.url, 0))
    IN  /\ req' = [req EXCEPT !.pc = "done",
                                !.fails = Append(req.fails, Failure(code))]
        /\ res' = r1
        /\ log' = IF head THEN Append(l1, Ev("response", req.url, 502)) ELSE l1

\* The rest of the callback: logError, writeHead(502) unless the head was
\* sent, end("Proxy error") when the response is writable.
GiveUp(code) ==
    LET head == ~res.headersSent
        r1 == IF head
              THEN [res EXCEPT !.headersSent = TRUE, !.status = 502,
                               !.contentType = "text/plain"]
              ELSE res
        r2 == IF res.writable
              THEN [r1 EXCEPT !.body = Append(r1.body, "Proxy error"),
                              !.finished = TRUE]
              ELSE r1
        l1 == Append(log, Ev("error", req.url, 0))
    IN  /\ req' = [req EXCEPT !.pc = "done",
                                !.fails = Append(req.fails, Failure(code))]
        /\ res' = r2
        /\ log' = IF head THEN Append(l1, Ev("response", req.url, 502)) ELSE l1

\* The callback with logError ahead of the retry test.
UpstreamFailLogsFirst(code) ==
    /\ req.pc \in {"forwarding", "streaming"}
    /\ IF ShouldRetry(code)
       THEN /\ req' = [req EXCEPT !.retried = TRUE, !.pc = "forwarding",
                                   !.attempts = req.attempts + 1,
                                   !.fails = Append(req.fails, Failure(code))]
            /\ log' = Append(log, Ev("error", req.url, 0))
            /\ UNCHANGED res
       ELSE GiveUp(code)
    /\ UNCHANGED <<config, report, routing, lifecycle, timers, file>>

\* The callback whose retry resolves the target again, from the table now
\* installed.
UpstreamFailResolvesAgain(code) ==
    /\ req.pc \in {"forwarding", "streaming"}
    /\ IF ShouldRetry(code)
       THEN /\ req' = [req EXCEPT !.retried = TRUE, !.pc = "forwarding",
                                   !.attempts = req.attempts + 1,
                                   !.fails = Append(req.fails, Failure(code)),
                                   !.target = SelectTarget(req.url),
                                   !.sentTo = Append(req.sentTo, SelectTarget(req.url))]
            /\ UNCHANGED <<res, log>>
       ELSE GiveUp(code)
    /\ UNCHANGED <<config, report, routing, lifecycle, timers, file>>

\* The callback given to proxy.web is called with an error, before or after
\* the upstream's response head was relayed.  The retry is doProxy() again:
\* proxy.web with the same target.
UpstreamFail(code) ==
    /\ req.pc \in {"forwarding", "streaming"}
    /\ IF ShouldRetry(code)
       THEN /\ req' = [req EXCEPT !.retried = TRUE, !.pc = "forwarding",
                                   !.attempts = req.attempts + 1,
                                   !.fails = Append(req.fails, Failure(code)),
                                   !.sentTo = Append(req.sentTo, req.target)]
            /\ UNCHANGED <<res, log>>
       ELSE GiveUp(code)
    /\ UNCHANGED <<config, report, routing, lifecycle, timers, file>>

\* --------------------------------------------------------- the command line

\* A command-line argument is the sequence of its pieces, ":" being a piece
\* of its own: "/api:http://localhost:3000" is
\* <<"/api", ":", "http", ":", "//localhost", ":", "3000">>.
Colon == ":"
FlagRoute == <<"--route">>
FlagR == <<"-r">>
FlagVerbose == <<"--verbose">>
RouteArgs ==
    { <<"/api", Colon, "http", Colon, "//localhost", Colon, "3000">>,
      <<"/auth", Colon, "https", Colon, "//auth.example.com">>,
      <<"/api", Colon, "up">>,
      <<Colon, "http", Colon, "//h">>,
      <<"/api">> }
CliWords == {FlagRoute, FlagR, FlagVerbose} \cup RouteArgs
CommandLines == UNION { [1..n -> CliWords] : n \in 0..MaxArgs }

HasColon(s) == \E k \in 1..Len(s) : s[k] = Colon
FirstColon(s) ==
    CHOOSE k \in 1..Len(s) : s[k] = Colon /\ \A j \in 1..(k - 1) : s[j] # Colon

RECURSIVE Split(_)
\* s.split(":"): the texts between the colons, empty ones included.
Split(s) ==
    IF ~HasColon(s) THEN <<s>>
    ELSE <<SubSeq(s, 1, FirstColon(s) - 1)>>
             \o Split(SubSeq(s, FirstColon(s) + 1, Len(s)))

\* undefined and "" are both falsy; the model has <<>> for both.
Truthy(text) == text # <<>>

\* The server's variables.
proxy ==
    <<forwardAll, routesFile, watchRoutes, ptrMajor, preserveHeaders, changeOrigin,
      logLevel, routing, lifecycle, timers, file, exchange, report>>

\* One turn of the while loop over args.
ParseArg ==
    /\ ~exited
    /\ argi <= Len(args)
    /\ IF args[argi] \in {FlagRoute, FlagR}
       THEN IF argi + 1 <= Len(args)
            THEN LET parts == Split(args[argi + 1])
                     pattern == parts[1]
                     target == IF Len(parts) >= 2 THEN parts[2] ELSE <<>>
                 IN  IF Truthy(pattern) /\ Truthy(target)
                     THEN /\ routes' = ObjectAssign(routes, <<Route(pattern, target)>>)
                          /\ argi' = argi + 2
                          /\ UNCHANGED exited
                     ELSE /\ exited' = TRUE
                          /\ UNCHANGED <<routes, argi>>
            ELSE /\ exited' = TRUE
                 /\ UNCHANGED <<routes, argi>>
       ELSE /\ argi' = argi + 1
            /\ UNCHANGED <<routes, exited>>
    /\ UNCHANGED <<args, proxy>>

\* After the loop, with no --routes-file: no routes, exit.
NoRoutesExit ==
    /\ ~exited
    /\ argi > Len(args)
    /\ Len(routes) = 0
    /\ exited' = TRUE
    /\ UNCHANGED <<args, argi, routes, proxy>>

\* ------------------------------------------------------ the specifications

\* The methods that reach routing differ in nothing before the first
\* proxy.web call.
RoutingMethods == {"GET", "OPTIONS"}

\* The requests of SpecRouting: a URL for each way the matcher of a literal
\* and of a parameter pattern meets a path and a query.
RoutingUrls ==
    { Url(<<"api">>, FALSE, "none"),
      Url(<<"api">>, FALSE, "empty"),
      Url(<<"api", "users">>, FALSE, "none"),
      Url(<<"api", "users">>, FALSE, "x=1"),
      Url(<<"api", "42">>, FALSE, "none"),
      Url(<<"other">>, FALSE, "none") }

NextRouting ==
    \/ Start
    \/ ListenCallback
    \/ Stop
    \/ \E f \in FileContents : WriteFile(f)
    \/ TimerFire
    \/ Reload
    \/ \E m \in RoutingMethods, u \in RoutingUrls : Request(m, u, NoHeaders)

SpecRouting == Init /\ [][NextRouting]_vars

InitForward == Init /\ ~routesFile

NextForward ==
    \/ Start
    \/ ListenCallback
    \/ Stop
    \/ \E m \in Methods, u \in Urls : Request(m, u, NoHeaders)
    \/ \E st \in UpstreamStatuses : UpstreamHeaders(st, NoHeaders)
    \/ UpstreamEnd
    \/ \E code \in ErrorCodes : UpstreamFail(code)

SpecForward == InitForward /\ [][NextForward]_vars

\* The server with its life cycle, the routes file and the reloads, and the
\* requests that tell one installed table from another.
ReloadUrls == { Url(<<"api", "users">>, FALSE, "none"), Url(<<"other">>, FALSE, "none") }

NextReload ==
    \/ Start
    \/ ListenCallback
    \/ Stop
    \/ \E f \in FileContents : WriteFile(f)
    \/ TimerFire
    \/ Reload
    \/ \E u \in ReloadUrls : Request("GET", u, NoHeaders)

InitReload == Init /\ routesFile

SpecReload == InitReload /\ [][NextReload]_vars

\* The same server with the watcher's timers run: a timer set with
\* setTimeout(..., 100) fires.
SpecWatch == InitReload /\ [][NextReload]_vars /\ WF_vars(TimerFire)

\* Reloads while a request is being forwarded: a server with a routes file
\* and no forwardAll, the tables a reload installs, and the upstream's
\* answers and failures.
InflightFiles == { JsonObject(RoutesParamFirst), JsonObject(RoutesLiteralFirst) }
InflightMethods == {"GET", "POST"}
InflightUrls == { Url(<<"api", "users">>, FALSE, "none") }

NextInflight ==
    \/ Start
    \/ ListenCallback
    \/ \E f \in InflightFiles : WriteFile(f)
    \/ TimerFire
    \/ Reload
    \/ \E m \in InflightMethods, u \in InflightUrls : Request(m, u, NoHeaders)
    \/ \E st \in UpstreamStatuses : UpstreamHeaders(st, NoHeaders)
    \/ UpstreamEnd
    \/ \E code \in ErrorCodes : UpstreamFail(code)

InitInflight == Init /\ routesFile /\ forwardAll = Null

SpecInflight == InitInflight /\ [][NextInflight]_vars

\* What the handler hands to http-proxy: servers that forward everything to
\* one target, with or without a path, and requests with headers.
OutgoingTargets == {TA, TP, TQ}
OutgoingMethods == {"GET", "POST"}

InitOutgoing ==
    /\ NoCommandLine
    /\ forwardAll \in OutgoingTargets
    /\ routesFile = FALSE
    /\ watchRoutes = FALSE
    /\ ptrMajor \in Majors
    /\ preserveHeaders \in BOOLEAN
    /\ changeOrigin \in BOOLEAN
    /\ logLevel = "basic"
    /\ currentRoutes = NoRoutes
    /\ file = MissingFile
    /\ Fresh

NextOutgoing ==
    \/ Start
    \/ ListenCallback
    \/ \E m \in OutgoingMethods, u \in Urls, h \in HeaderSets : Request(m, u, h)

SpecOutgoing == InitOutgoing /\ [][NextOutgoing]_vars

\* The response's headers: requests with and without an Origin, answered by
\* the handler (204, 404), by the upstream, and by the failure callback.
CorsMethods == {"GET", "POST", "OPTIONS"}
CorsUrls == { Url(<<"api">>, FALSE, "none"), Url(<<"other">>, FALSE, "none") }

InitCors ==
    /\ Init
    /\ ~routesFile
    /\ forwardAll = Null
    /\ currentRoutes = RoutesApi
    /\ ptrMajor = 6

NextCors ==
    \/ Start
    \/ ListenCallback
    \/ \E m \in CorsMethods, u \in CorsUrls, h \in CorsHeaderSets : Request(m, u, h)
    \/ \E st \in UpstreamStatuses, rh \in ProxyResHeaders : UpstreamHeaders(st, rh)
    \/ UpstreamEnd
    \/ \E code \in ErrorCodes : UpstreamFail(code)

SpecCors == InitCors /\ [][NextCors]_vars

\* Mappings with a target that is not a URL, in the configuration and in the
\* routes file.
TargetRoutes == {RoutesApi, RoutesInvalidTarget}
TargetFiles == { JsonObject(RoutesInvalidTarget), JsonObject(RoutesLiteralFirst) }

InitTargets ==
    /\ NoCommandLine
    /\ forwardAll = Null
    /\ routesFile = TRUE
    /\ watchRoutes \in BOOLEAN
    /\ ptrMajor \in Majors
    /\ preserveHeaders = TRUE
    /\ changeOrigin = TRUE
    /\ logLevel = "basic"
    /\ currentRoutes \in TargetRoutes
    /\ file \in TargetFiles
    /\ Fresh

NextTargets ==
    \/ Start
    \/ ListenCallback
    \/ \E f \in TargetFiles : WriteFile(f)
    \/ TimerFire
    \/ Reload
    \/ \E u \in ReloadUrls : Request("GET", u, NoHeaders)

SpecTargets == InitTargets /\ [][NextTargets]_vars

\* The log levels, requests with and without a body, their 'end' events,
\* and every outcome of a request.
BodyMethods == {"GET", "POST", "OPTIONS"}

InitBody ==
    /\ NoCommandLine
    /\ forwardAll = Null
    /\ routesFile = FALSE
    /\ watchRoutes = FALSE
    /\ ptrMajor = 6
    /\ preserveHeaders = TRUE
    /\ changeOrigin = TRUE
    /\ logLevel \in LogLevels
    /\ currentRoutes = RoutesApi
    /\ file = MissingFile
    /\ Fresh

NextBody ==
    \/ Start
    \/ ListenCallback
    \/ \E m \in BodyMethods, u \in CorsUrls : Request(m, u, NoHeaders)
    \/ RequestEnd
    \/ \E st \in UpstreamStatuses : UpstreamHeaders(st, NoHeaders)
    \/ UpstreamEnd
    \/ \E code \in ErrorCodes : UpstreamFail(code)

SpecBody == InitBody /\ [][NextBody]_vars

\* One request followed from its arrival to its end.  An attempt does not
\* stay open: the upstream answers, or its connection fails, or the timeouts
\* given to proxy.web (timeout and proxyTimeout, 60 s) end it with an error;
\* so a step of the upstream is taken whenever an attempt is open.
LiveUrls == { Url(<<"api">>, FALSE, "none"), Url(<<"other">>, FALSE, "none") }

Arrive(m, u) == req.pc \in {"idle", "done"} /\ Request(m, u, NoHeaders)

Upstream ==
    \/ \E st \in UpstreamStatuses : UpstreamHeaders(st, NoHeaders)
    \/ UpstreamEnd
    \/ \E code \in ErrorCodes : UpstreamFail(code)

NextLive ==
    \/ Start
    \/ ListenCallback
    \/ Stop
    \/ \E m \in Methods, u \in LiveUrls : Arrive(m, u)
    \/ Upstream

SpecLive == InitForward /\ [][NextLive]_vars /\ WF_vars(Upstream)

\* Servers whose table stays as start() installed it, asked with every kind
\* of request, one after another and after failures and retries.
ResolveMethods == {"GET", "POST", "OPTIONS"}
ResolveUrls ==
    { Url(<<"api", "users">>, FALSE, "none"), Url(<<"api", "42">>, FALSE, "none"),
      Url(<<"other">>, FALSE, "none") }
ResolveHeaderSets ==
    { NoHeaders, { Header("host", "client"), Header("authorization", "t") } }

InitResolve == Init /\ ~watchRoutes

NextResolve ==
    \/ Start
    \/ ListenCallback
    \/ \E m \in ResolveMethods, u \in ResolveUrls, h \in ResolveHeaderSets :
          Request(m, u, h)
    \/ \E st \in UpstreamStatuses : UpstreamHeaders(st, NoHeaders)
    \/ UpstreamEnd
    \/ \E code \in ErrorCodes : UpstreamFail(code)

SpecResolve == InitResolve /\ [][NextResolve]_vars

\* start(), the listen callback, changes of a watched routes file, the
\* timers and stop(), in every order; the mappings of these servers compile,
\* so that start() does not throw.
StopFiles ==
    { JsonObject(RoutesParamFirst), JsonObject(RoutesLiteralFirst), InvalidJson }

InitStop ==
    /\ Init
    /\ routesFile
    /\ watchRoutes
    /\ forwardAll = Null
    /\ file \in StopFiles

NextStop ==
    \/ Start
    \/ ListenCallback
    \/ Stop
    \/ \E f \in StopFiles : WriteFile(f)
    \/ TimerFire
    \/ \E u \in ReloadUrls : Request("GET", u, NoHeaders)

SpecStop == InitStop /\ [][NextStop]_vars

\* The command line's parsing, before it creates a server.
InitCli ==
    /\ args \in CommandLines
    /\ argi = 1
    /\ routes = NoRoutes
    /\ exited = FALSE
    /\ Created
    /\ forwardAll = Null
    /\ ~routesFile
    /\ ptrMajor = 6
    /\ currentRoutes = NoRoutes

NextCli == ParseArg \/ NoRoutesExit

SpecCli == InitCli /\ [][NextCli]_vars

\* ------------------------------------------------------------- the claims

\* A step of the handler: only the handler leaves a request answered without
\* a forwarding attempt, or in its first attempt with no failure yet.  What
\* the handler does is a function of the state and the request, so a handler
\* step that repeats the request before it, to the same effect, is also taken
\* from states that hold another request.
HandlerStep ==
    /\ req' # req
    /\ req'.fails = <<>>
    /\ \/ req'.pc = "done" /\ req'.attempts = 0
       \/ req'.pc = "forwarding" /\ req'.attempts = 1

\* A step of the handler for a request that reaches routing, of URL req'.url.
RoutedStep == HandlerStep /\ req'.method # "OPTIONS"

AcceptsAt(i, u) == Accepts(routeMatchers[i].pattern, u)
NoneAccepts(u) == \A i \in 1..Len(routeMatchers) : ~AcceptsAt(i, u)
HasEvent(type, path) == \E i \in 1..Len(log) : log[i].ev = type /\ log[i].path = path
Routed == req.pc # "idle" /\ req.method # "OPTIONS"

\* C1: with forwardAll configured, every request that reaches routing (any
\* path, any method but OPTIONS) is forwarded to the forwardAll target,
\* whatever the route mapping and its "*" hold, after any reloads.
C1_ForwardAllWins ==
    (forwardAll # Null /\ Routed) =>
        /\ req.target = forwardAll
        /\ req.attempts >= 1
        /\ res.status # 404

\* C1 witness: a request forwarded to forwardAll while the table, installed
\* from the routes file, has an accepting entry and a wildcard.
C1_Witness ==
    /\ forwardAll = TF
    /\ req.pc = "forwarding"
    /\ req.target = TF
    /\ currentRoutes = RoutesParamFirst
    /\ defaultTarget = TW
    /\ FirstMatch(routeMatchers, req.url, 1) = TA

\* C2: without forwardAll, a request that is no preflight resolves to the
\* target of the first entry, in key order, whose matcher accepts its URL; a
\* later accepting entry is never chosen.
C2_FirstMatchWins ==
    [][(RoutedStep /\ forwardAll = Null) =>
          \A i \in 1..Len(routeMatchers) :
              (AcceptsAt(i, req'.url) /\ \A j \in 1..(i - 1) : ~AcceptsAt(j, req'.url))
                  => req'.target = routeMatchers[i].target]_vars

\* C2 witness: two entries with different targets accept the URL and the
\* request went to the first one.
C2_Witness ==
    /\ forwardAll = Null
    /\ req.pc = "forwarding"
    /\ \E i, j \in 1..Len(routeMatchers) :
          /\ i < j
          /\ AcceptsAt(i, req.url) /\ AcceptsAt(j, req.url)
          /\ \A k \in 1..(i - 1) : ~AcceptsAt(k, req.url)
          /\ routeMatchers[i].target # routeMatchers[j].target
          /\ req.target = routeMatchers[i].target

\* The path lies beneath the plain prefix pattern.
Beneath(pattern, u) ==
    /\ \A k \in 1..Len(pattern) : pattern[k] \notin Params
    /\ pattern \notin Malformed
    /\ Len(pattern) < Len(u.segs)
    /\ SubSeq(u.segs, 1, Len(pattern)) = pattern

\* C3: a route whose pattern is a plain prefix ("/api") matches every path
\* beneath it ("/api/users"): the request goes to that route's target, not to
\* the wildcard or a 404.
C3_PrefixRouteMatches ==
    [][(RoutedStep /\ forwardAll = Null) =>
          \A i \in 1..Len(routeMatchers) :
              ( /\ Beneath(routeMatchers[i].pattern, req'.url)
                /\ \A j \in 1..(i - 1) :
                      /\ ~AcceptsAt(j, req'.url)
                      /\ ~Beneath(routeMatchers[j].pattern, req'.url) )
                  => req'.target = routeMatchers[i].target]_vars

StripQuery(u) == [u EXCEPT !.query = "none"]

\* C4: matching uses the path alone: a request resolves to the target its
\* URL without the query string resolves to.
C4_QueryIgnored ==
    [][RoutedStep => req'.target = SelectTarget(StripQuery(req'.url))]_vars

\* C5: when no compiled entry accepts the URL and the mapping has the key
\* "*", the request resolves to the wildcard target; "*" is never among the
\* compiled entries, and an accepting entry goes before the wildcard.
C5_WildcardFallback ==
    /\ [](\A i \in 1..Len(routeMatchers) : routeMatchers[i].pattern # Star)
    /\ [][(RoutedStep /\ forwardAll = Null) =>
             /\ (NoneAccepts(req'.url) /\ HasKey(currentRoutes, Star)) =>
                    /\ req'.target = WildcardOf(currentRoutes)
                    /\ req'.pc = "forwarding"
             /\ ~NoneAccepts(req'.url) =>
                    \E i \in 1..Len(routeMatchers) :
                        /\ AcceptsAt(i, req'.url)
                        /\ req'.target = routeMatchers[i].target]_vars

\* C5 witness: a table with compiled entries, none accepting the URL, and the
\* request forwarded to the target of "*".
C5_Witness ==
    /\ forwardAll = Null
    /\ req.pc = "forwarding"
    /\ Len(routeMatchers) > 0
    /\ NoneAccepts(req.url)
    /\ HasKey(currentRoutes, Star)
    /\ req.target = WildcardOf(currentRoutes)

\* C6: a request that is no preflight, with no accepting entry, no wildcard
\* and no forwardAll, is answered 404 text/plain "Not found" with a
\* route-not-found event, and is never forwarded.
C6_NotFound ==
    /\ []((Routed /\ req.target = Null) => (req.pc = "done" /\ req.attempts = 0))
    /\ [][( /\ RoutedStep
             /\ forwardAll = Null
             /\ defaultTarget = Null
             /\ NoneAccepts(req'.url) ) =>
               /\ res'.status = 404
               /\ res'.contentType = "text/plain"
               /\ res'.body = <<"Not found">>
               /\ res'.finished
               /\ log' = <<Ev("notfound", req'.url, 0)>>
               /\ req'.target = Null
               /\ req'.attempts = 0
               /\ req'.pc = "done"]_vars

\* C6 witness: a 404 given with entries compiled, none of them accepting.
C6_Witness ==
    /\ req.pc = "done"
    /\ req.method = "GET"
    /\ res.status = 404
    /\ Len(routeMatchers) > 0
    /\ defaultTarget = Null
    /\ forwardAll = Null

\* C7: every OPTIONS request is answered 204 with an empty body and a
\* preflight event and reaches neither routing nor forwarding, whatever the
\* table, the wildcard and forwardAll are.
C7_PreflightShortCircuit ==
    (req.pc # "idle" /\ req.method = "OPTIONS") =>
        /\ req.pc = "done"
        /\ res.status = 204
        /\ res.body = <<>>
        /\ res.finished
        /\ log = <<Ev("preflight", NoUrl, 0)>>
        /\ req.target = Null
        /\ req.attempts = 0

\* C7 witness: a preflight answered 204 for a URL no route resolves.
C7_Witness ==
    /\ req.pc = "done"
    /\ req.method = "OPTIONS"
    /\ res.status = 204
    /\ Len(routeMatchers) > 0
    /\ SelectTarget(req.url) = Null

SafeMethods == {"GET", "HEAD", "OPTIONS"}
Reset(sent) == [code |-> "ECONNRESET", sent |-> sent]

\* C8: a request gets a second forwarding attempt exactly when its first
\* attempt failed with ECONNRESET and its method is GET, HEAD or OPTIONS, and
\* never a third: no request is forwarded more than twice, and a POST, PUT,
\* PATCH or DELETE never more than once.
C8_RetryBound ==
    /\ req.attempts <= 2
    /\ req.attempts = 2 <=>
          /\ Len(req.fails) >= 1
          /\ req.fails[1].code = "ECONNRESET"
          /\ req.method \in SafeMethods
    /\ req.method \in {"POST", "PUT", "PATCH", "DELETE"} => req.attempts <= 1

\* C8 witness: a HEAD request whose first attempt and retry both failed with
\* ECONNRESET, forwarded twice.
C8_Witness ==
    /\ req.method = "HEAD"
    /\ req.pc = "done"
    /\ req.fails = <<Reset(FALSE), Reset(FALSE)>>
    /\ req.attempts = 2

\* The retry of a GET whose first attempt failed with a reset succeeded.
RetrySucceeded ==
    /\ req.method = "GET"
    /\ req.pc = "done"
    /\ req.attempts = 2
    /\ Len(req.fails) = 1
    /\ req.fails[1].code = "ECONNRESET"

\* The client has the upstream's response, and no 502 and no error event.
UpstreamRelayed ==
    /\ res.status \in UpstreamStatuses
    /\ res.body = <<"part", "rest">>
    /\ res.finished
    /\ \A i \in 1..Len(log) : log[i].ev # "error" /\ log[i].status # 502

PostResetFailed ==
    /\ req.method = "POST"
    /\ Len(req.fails) >= 1
    /\ req.fails[1].code = "ECONNRESET"

\* C9 as claimed: when a GET's first attempt fails with a connection reset
\* and the retry succeeds, the client gets the upstream's response, no 502 is
\* written and no error event emitted; when a POST's first attempt fails with
\* a connection reset, the client gets 502 without a second attempt.
C9_AsClaimed ==
    /\ RetrySucceeded => UpstreamRelayed
    /\ PostResetFailed =>
          /\ req.attempts = 1
          /\ req.pc = "done"
          /\ res.status = 502

\* C9 as amended: the same for a reset that comes before any response head
\* was sent to the client; a POST whose first attempt fails with a reset gets
\* no second attempt in any case.
C9_RetryOutcome ==
    /\ (RetrySucceeded /\ ~req.fails[1].sent) => UpstreamRelayed
    /\ PostResetFailed =>
          /\ req.attempts = 1
          /\ req.pc = "done"
          /\ ~req.fails[1].sent => res.status = 502

\* C9 witness: a GET reset before any head was sent and answered by the
\* upstream on its retry.
C9_Witness ==
    /\ RetrySucceeded
    /\ ~req.fails[1].sent
    /\ res.status = 200
    /\ HasEvent("response", req.url)

\* Every forwarding attempt of the request failed and the callback gave up.
GaveUp ==
    /\ req.pc = "done"
    /\ req.attempts >= 1
    /\ Len(req.fails) = req.attempts

\* C10: when a forwarding attempt fails and is not retried, or the retry
\* fails too, and no response head was sent, the client gets 502 text/plain
\* "Proxy error" and an error event with the request path is emitted.
C10_BadGateway ==
    (GaveUp /\ ~req.fails[Len(req.fails)].sent) =>
        /\ res.status = 502
        /\ res.contentType = "text/plain"
        /\ res.body = <<"Proxy error">>
        /\ res.finished
        /\ HasEvent("error", req.url)

\* C10 witness: a GET whose retry failed too, with no head sent, answered 502.
C10_Witness ==
    /\ GaveUp
    /\ req.attempts = 2
    /\ ~req.fails[2].sent
    /\ res.status = 502

InBody(piece) == \E i \in 1..Len(res.body) : res.body[i] = piece

\* C11: when a forwarding attempt fails after the response head was sent to
\* the client and the callback gives up, neither a 502 status nor the
\* "Proxy error" body is written into the response; the stream is only ended.
C11_OnlyTerminates ==
    (GaveUp /\ req.fails[Len(req.fails)].sent) =>
        /\ res.status # 502
        /\ ~InBody("Proxy error")
        /\ res.finished

\* A step of a reload, by the watcher's timer or by reload(): no other step
\* leaves the file, the exchange and the life cycle as they are.
ReloadStep == UNCHANGED <<file, exchange, lifecycle>>

\* The route source cannot be read, cannot be parsed, or is an empty mapping.
Discarded(f) == f.kind \in {"missing", "invalid"} \/ f = JsonObject(NoRoutes)

\* C12: a reload, by the watcher or by reload(), whose route source is
\* unreadable, unparsable or an empty mapping leaves the route mapping, the
\* compiled matchers and the wildcard target as they were.
C12_DiscardKeepsTable ==
    [][(ReloadStep /\ Discarded(file)) => UNCHANGED routing]_vars

\* C12 witness: the watcher's reload has run on a source it could not load,
\* and the table installed before it is in place.
C12_Witness ==
    /\ Discarded(file)
    /\ report.by = "watcher"
    /\ report.calls = <<"error", "warning">>
    /\ currentRoutes = RoutesParamFirst
    /\ routeMatchers = compileRouteMatchers(RoutesParamFirst)
    /\ defaultTarget = TW

\* The candidate mapping holds a pattern that does not compile.
MalformedCandidate == file.kind = "object" /\ CompileThrows(file.routes)

\* C13: a reload, by the watcher or by reload(), whose candidate mapping
\* holds a malformed pattern is rejected as a whole: the route mapping, the
\* compiled matchers and the wildcard target are those of the table before.
C13_MalformedRejected ==
    [][(ReloadStep /\ MalformedCandidate) => UNCHANGED routing]_vars

\* C14: no failure during a reload (unreadable file, invalid JSON, JSON that
\* is no object, malformed pattern) leaves the operation as an exception,
\* for the watcher's reload and for reload().
C14_NothingThrown == ~report.threw

\* A failure report: a logger call of level error or warning.
Reported(r) == \E i \in 1..Len(r.calls) : r.calls[i] \in {"error", "warning"}

\* C15: whenever a reload discards its candidate because it is empty or does
\* not parse, a failure report goes through the logger, for reload() as for
\* the watcher's reload.
C15_DiscardReported ==
    [][(ReloadStep /\ routesFile /\ Discarded(file)) => Reported(report')]_vars

\* The tables that can be installed: the configured routes with the file's
\* merged over them by start(), and the file's mapping itself by a reload.
Tables ==
    { ObjectAssign(c, loadRoutesFromFile(f)) : c \in ConfigRoutes, f \in FileContents }
        \cup { loadRoutesFromFile(f) : f \in FileContents }

\* The matcher list and the wildcard target are those of one table.
OneTable ==
    \E T \in Tables :
        /\ ~CompileThrows(T)
        /\ routeMatchers = compileRouteMatchers(T)
        /\ defaultTarget = WildcardOf(T)

\* C16: however requests and reloads interleave, a request resolves against
\* one complete table: the matcher list and the wildcard target it reads are
\* those of the same installed table, also after a reload that failed
\* part-way.
C16_OneTablePerRequest ==
    [][(RoutedStep /\ forwardAll = Null) => OneTable]_vars

\* C17: a request's target is resolved once, when it arrives: every
\* forwarding attempt of the request, its retry included, goes to that
\* target, whatever reloads complete while the request is in flight.
C17_TargetResolvedOnce ==
    /\ [](/\ Len(req.sentTo) = req.attempts
          /\ \A i \in 1..Len(req.sentTo) : req.sentTo[i] = req.target)
    /\ [][RoutedStep => req'.target = SelectTarget(req'.url)]_vars
    /\ [][(~HandlerStep /\ req.pc # "idle") => req'.target = req.target]_vars

\* C17 witness: a request forwarded twice to the target resolved on its
\* arrival, while the table a reload installed since resolves its URL to
\* another target.
C17_Witness ==
    /\ req.attempts = 2
    /\ req.pc = "forwarding"
    /\ req.sentTo = <<TA, TA>>
    /\ report.by # "none"
    /\ SelectTarget(req.url) = TB

BeforeFirstColon(s) == SubSeq(s, 1, FirstColon(s) - 1)
AfterFirstColon(s) == SubSeq(s, FirstColon(s) + 1, Len(s))

\* C18: --route "<pattern>:<target>" registers the route from <pattern> to
\* the whole target URL after the first colon: "/api:http://localhost:3000"
\* gives /api -> http://localhost:3000.
C18_RouteOption ==
    [][argi' = argi + 2 =>
          LET a == args[argi + 1] IN
          /\ HasKey(routes', BeforeFirstColon(a))
          /\ routes'[IndexOf(routes', BeforeFirstColon(a), 1)].target
                 = AfterFirstColon(a)]_vars

\* The request was given to http-proxy.
Proxied == req.attempts >= 1 /\ req.target # Null

\* C19: when the target's URL has a path other than "/" and the request path
\* begins with it, the target's path is not prepended and the upstream is
\* asked for the request path (target /api, request /api/users: /api/users,
\* not /api/api/users); in every other case the target's path is joined with
\* the request path.  "Begins with" is startsWith on the text of the URL.
C19_PathPrepend ==
    Proxied =>
        LET base == BasePath(req.target) IN
        IF base # <<>> /\ StartsWith(req.url, base)
        THEN ~req.prependPath /\ req.path = req.url.segs
        ELSE req.prependPath /\ req.path = base \o req.url.segs

\* C19 witness: a request for /api/users forwarded to http://p/api and asked
\* of the upstream as /api/users.
C19_Witness ==
    /\ Proxied
    /\ req.target = TP
    /\ req.url.segs = <<"api", "users">>
    /\ ~req.prependPath
    /\ req.path = <<"api", "users">>

Stripped == {"host", "connection", "content-length"}

\* C20: with preserveHeaders enabled, the Host, Connection and Content-Length
\* headers are removed from every request before it is forwarded, and every
\* other header of the request is left as it was.
C20_HeadersStripped ==
    (preserveHeaders /\ Proxied) =>
        req.headers = { x \in req.inbound : x[1] \notin Stripped }

\* C21: with preserveHeaders disabled (--no-preserve-headers) the proxy does
\* minimal header forwarding: the headers of the request given upstream are
\* fewer than with preserveHeaders enabled, never more than what the enabled
\* branch forwards and, for a request with headers, not all of them.
C21_MinimalForwarding ==
    (~preserveHeaders /\ Proxied) =>
        /\ req.headers \subseteq StripHeaders(req.inbound)
        /\ (req.inbound # NoHeaders => req.headers # req.inbound)

\* C22: with changeOrigin disabled, the Host, Origin and Referer headers of
\* the upstream request are the client's own, neither overwritten nor
\* removed, whatever preserveHeaders is.
C22_OriginKept ==
    (~changeOrigin /\ Proxied) =>
        /\ Value(req.inbound, "host") # Null
               => req.outbound.host = Value(req.inbound, "host")
        /\ req.outbound.origin = Value(req.inbound, "origin")
        /\ req.outbound.referer = Ref(Value(req.inbound, "referer"), NoUrl)

\* C23: with changeOrigin enabled, every forwarded request carries the
\* target's host as Host, the target's scheme and host as Origin, and that
\* origin followed by the request's URL as Referer, whatever the client sent
\* for them.
C23_OriginRewritten ==
    (changeOrigin /\ Proxied) =>
        /\ req.outbound.host = TargetHost(req.target)
        /\ req.outbound.origin = TargetOrigin(req.target)
        /\ req.outbound.referer = Ref(TargetOrigin(req.target), req.url)

\* C23 witness: a request that came with Origin http://site and a Referer,
\* forwarded to http://p/api with those of http://p.
C23_Witness ==
    /\ changeOrigin /\ Proxied
    /\ req.target = TP
    /\ Value(req.inbound, "origin") = "http://site"
    /\ req.url = Url(<<"api", "users">>, FALSE, "x=1")
    /\ req.outbound.host = "p"
    /\ req.outbound.origin = "http://p"
    /\ req.outbound.referer = Ref("http://p", req.url)

CorsNames ==
    { "access-control-allow-origin", "access-control-allow-methods",
      "access-control-allow-headers", "access-control-allow-credentials",
      "access-control-max-age" }
DefaultAllowHeaders ==
    "Content-Type, Authorization, Channel, hiddify-api-key, X-Requested-With"

\* C24: a response carries the proxy's CORS headers exactly when its request
\* carried an Origin header, whatever the method and the outcome (204, 404,
\* forwarded, 502): Access-Control-Allow-Origin is then the request's Origin
\* and Access-Control-Allow-Headers the request's
\* Access-Control-Request-Headers, or the default list when it has none.  A
\* request without Origin gets no CORS header but those of the upstream.
C24_Cors ==
    res.headersSent =>
        IF IsSet(req.inbound, "origin")
        THEN /\ Value(res.headers, "access-control-allow-origin")
                    = Value(req.inbound, "origin")
             /\ Value(res.headers, "access-control-allow-headers")
                    = IF IsSet(req.inbound, "access-control-request-headers")
                      THEN Value(req.inbound, "access-control-request-headers")
                      ELSE DefaultAllowHeaders
        ELSE { x \in res.headers : x[1] \in CorsNames } \subseteq res.proxyRes

\* C25: a mapping with a target that is not a valid absolute URL is refused
\* when it is compiled: it is never installed as the active table, and no
\* request is handed to the forwarding engine with such a target.
C25_TargetsValidated ==
    /\ \A i \in 1..Len(routeMatchers) : ~UrlThrows(routeMatchers[i].target)
    /\ ~UrlThrows(defaultTarget)
    /\ Proxied => ~UrlThrows(req.target)

\* C26: at the full log level, the first forwarding attempt of a POST, PUT
\* or PATCH request begins only after the request's body was received whole
\* (its 'end' event).
C26_BodyBeforeForward ==
    (logLevel = "full" /\ req.method \in {"POST", "PUT", "PATCH"}
        /\ req.attempts >= 1) => req.ended

\* C29: every request the server receives leaves a request-start event
\* (logRequest) in the log by the time its handler returns, whatever its
\* outcome (preflight, not found, forwarded, failed) and the log level.
C29_RequestLogged ==
    req.pc # "idle" => HasEvent("request", req.url)

\* C27: no failure leaves a request hanging: after a failed attempt, the
\* first or the retry, the request reaches its end with the client's
\* response ended: a 502 was sent, or the response already begun (or the one
\* of the retry) was ended.
C27_FailureEnds ==
    (Len(req.fails) >= 1) ~> (req.pc = "done" /\ res.finished)

\* C27 witness: a GET whose first attempt and retry both failed, answered
\* 502 and ended.
C27_Witness ==
    /\ Len(req.fails) = 2
    /\ req.pc = "done"
    /\ res.status = 502
    /\ res.finished
    /\ res.body = <<"Proxy error">>

\* Mappings that load and compile, and are not empty.
ValidMappings == {RoutesParamFirst, RoutesLiteralFirst}

\* The table, its compiled entries and its wildcard are those of a mapping.
Installed(T) ==
    /\ currentRoutes = T
    /\ routeMatchers = compileRouteMatchers(T)
    /\ defaultTarget = WildcardOf(T)

\* The target of a URL in a mapping: its first accepting entry in key order,
\* else its wildcard.
Resolve(T, url) ==
    LET t == FirstMatch(compileRouteMatchers(T), url, 1) IN
    IF t = Null /\ WildcardOf(T) # Null THEN WildcardOf(T) ELSE t

\* C28: after a change notification for a routes file that holds a valid,
\* non-empty mapping, and with no further change of the file, the watcher
\* eventually installs that mapping; and a request that arrives while the
\* mapping is installed is resolved in it, not in the mapping before it.
C28_WatcherInstalls ==
    /\ \A T \in ValidMappings :
          (timers > 0 /\ file = JsonObject(T))
              ~> (Installed(T) \/ file # JsonObject(T))
    /\ [][\A T \in ValidMappings :
             (Installed(T) /\ RoutedStep /\ forwardAll = Null)
                 => req'.target = Resolve(T, req'.url)]_vars

\* C28 witness: the watcher has installed the mapping of the file over the
\* configured one, and a request for /api/users went to its target.
C28_Witness ==
    /\ forwardAll = Null
    /\ file = JsonObject(RoutesLiteralFirst)
    /\ Installed(RoutesLiteralFirst)
    /\ report = Report("watcher", <<"info", "success", "info">>, FALSE)
    /\ req.pc = "forwarding"
    /\ req.url = Url(<<"api", "users">>, FALSE, "none")
    /\ req.target = TB

\* C30: route resolution is deterministic.  With the installed table and
\* forwardAll fixed, the target of a request (or its having none) is that of
\* its URL in the table, and a request with the URL of the request before it
\* gets the same target, whatever the methods (but OPTIONS) and headers of
\* the two and whatever happened to the first.
C30_Deterministic ==
    [][RoutedStep =>
          /\ req'.target = (IF forwardAll # Null THEN forwardAll
                            ELSE Resolve(currentRoutes, req'.url))
          /\ (Routed /\ req.url = req'.url) => req'.target = req.target]_vars

\* C30 witness: a POST with headers went to the target the installed table
\* has for its URL.
C30_Witness ==
    /\ forwardAll = Null
    /\ req.pc = "forwarding"
    /\ req.method = "POST"
    /\ req.inbound # NoHeaders
    /\ req.url = Url(<<"api", "42">>, FALSE, "none")
    /\ req.target = TA
    /\ Installed(RoutesParamFirst)

\* C31: in every state after start(), through successful reloads, rejected
\* reloads and the watcher's callbacks, the three routing variables agree:
\* defaultTarget is currentRoutes["*"] (null without one) and routeMatchers
\* is the compilation, in key order, of the other entries of currentRoutes.
C31_RoutingAgrees ==
    started =>
        /\ defaultTarget = WildcardOf(currentRoutes)
        /\ routeMatchers = compileRouteMatchers(currentRoutes)

\* C32: a response head is written at most once for a request: once a head
\* was sent, no later step of the request writes a 502 head, and no new
\* forwarding attempt (a retry), which would write a second response, is
\* started for it.
C32_HeadOnce ==
    [][(res.headersSent /\ ~HandlerStep) =>
          /\ res'.status = res.status
          /\ req'.attempts = req.attempts]_vars

\* stop() was called: start() has run and the server is null again (of
\* servers whose start() does not throw).
Stopped == started /\ server = Null

\* C33: after stop() no file watcher is registered and the routing
\* variables are never assigned again, however start(), the listen callback,
\* the change notifications, the pending timers and stop() interleave.
C33_StopIsFinal ==
    /\ [](Stopped => ~watcher)
    /\ [][Stopped => UNCHANGED routing]_vars

Keys(T) == { T[i].pattern : i \in 1..Len(T) }
TargetOf(T, p) == IF HasKey(T, p) THEN T[IndexOf(T, p, 1)].target ELSE Null

\* The step of start().
StartStep == ~started /\ started'

\* C34: start() merges the routes file over the configured routes: the keys
\* of both, a key of the file with the file's target, another key with the
\* configured one.  A successful reload installs the file's mapping and
\* nothing else, so that a request is resolved in the file's mapping alone:
\* a configured route whose key the file has not resolves no more.
C34_MergeThenReplace ==
    /\ [][(StartStep /\ routesFile) =>
             LET fileRoutes == loadRoutesFromFile(file) IN
             /\ Keys(currentRoutes') = Keys(currentRoutes) \cup Keys(fileRoutes)
             /\ \A p \in Keys(currentRoutes') :
                    TargetOf(currentRoutes', p)
                        = IF HasKey(fileRoutes, p) THEN TargetOf(fileRoutes, p)
                          ELSE TargetOf(currentRoutes, p)]_vars
    /\ [][(ReloadStep /\ Installs) =>
             /\ currentRoutes' = loadRoutesFromFile(file)
             /\ defaultTarget' = WildcardOf(loadRoutesFromFile(file))
             /\ routeMatchers' = compileRouteMatchers(loadRoutesFromFile(file))]_vars
    /\ [][(RoutedStep /\ forwardAll = Null /\ Installs
              /\ Installed(loadRoutesFromFile(file))) =>
             req'.target = Resolve(loadRoutesFromFile(file), req'.url)]_vars

\* C34 witness: after a reload that installed a file without a key for
\* /other and without a wildcard, GET /other is answered 404.
C34_Witness ==
    /\ forwardAll = Null
    /\ report = Report("reload", <<"info", "success", "info">>, FALSE)
    /\ file = JsonObject(RoutesLiteralFirst)
    /\ currentRoutes = RoutesLiteralFirst
    /\ req.pc = "done"
    /\ req.url = Url(<<"other">>, FALSE, "none")
    /\ res.status = 404

\* The request path lies within the base path at a segment boundary: it is
\* the base path, or the base path followed by "/" and more.
WithinBase(url, base) ==
    /\ Len(base) <= Len(url.segs)
    /\ \A j \in 1..Len(base) : url.segs[j] = base[j]

\* C35: whenever the request path does not lie within the target's base
\* path at a segment boundary, the base path is prepended to the path asked
\* of the upstream (base /promo, request /promotions/x: /promo/promotions/x).
C35_SegmentBoundary ==
    (Proxied /\ ~WithinBase(req.url, BasePath(req.target))) =>
        /\ req.prependPath
        /\ req.path = BasePath(req.target) \o req.url.segs

====
